---- MODULE Spec2Model ----
(***************************************************************************)
(* A state-machine model of StackedDenoisingAutoencoder                    *)
(* (src/models/autoencoder_models/stacked_denoising_autoencoder.py).       *)
(*                                                                         *)
(* Tensors are modelled by what the orchestration code can observe of      *)
(* them: their shape, how they were initialised, and where they came from. *)
(* A data set is a record [src, cols, by]: the original set it derives     *)
(* from, its number of columns, and the sequence of autoencoders (0-based  *)
(* layer indices) whose transform() it has gone through.                   *)
(* Python lists are TLA+ sequences: Python index l is TLA+ index l + 1.    *)
(***************************************************************************)
EXTENDS Integers, Sequences, FiniteSets, TLC

\* ---------------------------------------------------------------- bounds
MaxLayers == 2      \* longest `layers` list explored
MaxPretrains == 2   \* encoding_w_ never grows past MaxPretrains * len(layers)
MaxSamples == 3     \* largest training set given to fit
MaxBatch == 2       \* largest finetune_batch_size
MaxEpochs == 2      \* largest finetune_num_epochs

Widths == {2, 3}            \* hidden-layer sizes
Features == {4, 5}          \* n_features given to build_model
TrainFeatures == {4}        \* train_set.shape[1] of the sets given to pretrain
TrainRows == {6}            \* train_set.shape[0]
ValidRows == {3}            \* validation_set.shape[0]
Classes == {2}              \* n_classes
ActFuncs == {"sigmoid", "tanh", "relu", "none"}
Dropouts == {"0.5", "1"}    \* keep-probabilities, as written in the feed dict

\* All sequences over S of length lo..hi.
SeqsOf(S, lo, hi) == UNION {[1..n -> S] : n \in lo..hi}

\* A Python list of n copies of v (the per-layer option lists).
Repeat(v, n) == [k \in 1..n |-> v]

Min(a, b) == IF a < b THEN a ELSE b

\* ------------------------------------------------------------- data sets
NoData == [src |-> "none", rows |-> 0, cols |-> 0, by |-> <<>>]
Data(src, rows, cols) == [src |-> src, rows |-> rows, cols |-> cols, by |-> <<>>]

\* ----------------------------------------------------------------- state
VARIABLES
    \* constructor arguments kept on the object
    layers, do_pretrain, finetune_act_func, finetune_num_epochs,
    finetune_batch_size, dropout, enc_act_func, dec_act_func, train_opts,
    \* object fields
    autoencoders, encoding_w_, encoding_b_, layer_nodes, softmax_W,
    input_data, train_step, tf_saver, tf_session,
    \* the world outside the object
    graph,        \* names of the nodes of TensorFlow's default graph
    model_file,   \* the checkpoint at model_path
    \* the running call: position, locals, and what it has done so far
    pc, l, next_train, next_valid, shuff, batches, epoch, validation_set,
    fed,          \* the feeds given to train_step in the current epoch
    trace, result

cfgVars == <<layers, do_pretrain, finetune_act_func, finetune_num_epochs,
             finetune_batch_size, dropout, enc_act_func, dec_act_func, train_opts>>
paramVars == <<encoding_w_, encoding_b_>>
netVars == <<layer_nodes, softmax_W, input_data, train_step>>
sessVars == <<tf_saver, tf_session, model_file>>
pretrainLocals == <<l, next_train, next_valid>>
fitLocals == <<shuff, batches, epoch, validation_set, fed>>
vars == <<cfgVars, autoencoders, paramVars, netVars, sessVars, graph,
          pc, pretrainLocals, fitLocals, trace, result>>

\* The names of the per-layer lists that _initialize_training_parameters keeps.
TrainOptNames == {"loss_func", "opt", "learning_rate", "num_epochs", "batch_size"}

\* -------------------------------------------------- DenoisingAutoencoder
\* The collaborator's interface: build_model, fit, get_model_parameters,
\* transform.  n_components is the constructor argument of line 81.
NewAutoencoder(n) ==
    [n_components |-> n, input_dim |-> 0, fit_train |-> NoData, fit_valid |-> NoData]

AE_build_model(ae, n_features) == [ae EXCEPT !.input_dim = n_features]

AE_fit(ae, train, valid) == [ae EXCEPT !.fit_train = train, !.fit_valid = valid]

\* enc_w has shape (input_dim, n_components), enc_b has shape (n_components,).
\* `at` identifies the value: the list position it is appended at.
AE_get_model_parameters(ae, at) ==
    [enc_w |-> [shape |-> <<ae.input_dim, ae.n_components>>, kind |-> "array",
                init |-> "pretrained", at |-> at],
     enc_b |-> [shape |-> <<ae.n_components>>, kind |-> "array",
                init |-> "pretrained", at |-> at]]

\* transform of a data set: as many rows, n_components columns, one more
\* encoder applied.
AE_transform(ae, idx, data) ==
    [src |-> data.src, rows |-> data.rows, cols |-> ae.n_components,
     by |-> Append(data.by, idx)]

\* What transform(None) does is not fixed by the interface: it may hand None
\* on, or raise.
AE_transform_outcomes(ae, idx, data) ==
    IF data = NoData THEN {[raised |-> FALSE, out |-> NoData], [raised |-> TRUE, out |-> NoData]}
    ELSE {[raised |-> FALSE, out |-> AE_transform(ae, idx, data)]}

\* ------------------------------------------------------------- lifecycle
Idle == pc = "idle"

Return(op, status, value) ==
    /\ pc' = "idle"
    /\ result' = [op |-> op, status |-> status, value |-> value]

NoResult == [op |-> "none", status |-> "none", value |-> <<>>]

\* --------------------------------------------------------------- pretrain
\* pretrain(train_set, validation_set), lines 96-97: the loop has not started.
PretrainCall(N, M, F, hasValid) ==
    /\ Idle
    /\ Len(encoding_w_) + Len(layers) <= MaxPretrains * Len(layers)
    /\ next_train' = Data("train", N, F)
    /\ next_valid' = IF hasValid THEN Data("valid", M, F) ELSE NoData
    /\ l' = 0
    /\ trace' = <<>>
    /\ result' = NoResult
    /\ pc' = IF Len(autoencoders) = 0 THEN "pt_return" ELSE "pt_build"
    /\ UNCHANGED <<cfgVars, autoencoders, paramVars, netVars, sessVars, graph, fitLocals>>

\* line 117: autoenc.build_model(train_set.shape[1])
PretrainBuild ==
    /\ pc = "pt_build"
    /\ autoencoders' = [autoencoders EXCEPT ![l + 1] = AE_build_model(@, next_train.cols)]
    /\ trace' = Append(trace, [ev |-> "build", layer |-> l, train |-> next_train, valid |-> next_valid])
    /\ pc' = "pt_fit"
    /\ UNCHANGED <<cfgVars, paramVars, netVars, sessVars, graph, pretrainLocals, fitLocals, result>>

\* line 118: autoenc.fit(train_set, validation_set)
PretrainFit ==
    /\ pc = "pt_fit"
    /\ autoencoders' = [autoencoders EXCEPT ![l + 1] = AE_fit(@, next_train, next_valid)]
    /\ trace' = Append(trace, [ev |-> "fit", layer |-> l, train |-> next_train, valid |-> next_valid])
    /\ pc' = "pt_params"
    /\ UNCHANGED <<cfgVars, paramVars, netVars, sessVars, graph, pretrainLocals, fitLocals, result>>

\* The parameters put at the front of the lists instead of the end.
AppendParams_AtFront(ws, bs, ae) ==
    LET params == AE_get_model_parameters(ae, Len(ws))
    IN  [w |-> <<params.enc_w>> \o ws, b |-> <<params.enc_b>> \o bs]

\* lines 120-123: the fitted parameters are appended to the two lists.
AppendParams(ws, bs, ae) ==
    LET params == AE_get_model_parameters(ae, Len(ws))
    IN  [w |-> Append(ws, params.enc_w), b |-> Append(bs, params.enc_b)]

PretrainParams ==
    /\ pc = "pt_params"
    /\ LET r == AppendParams(encoding_w_, encoding_b_, autoencoders[l + 1])
       IN  /\ encoding_w_' = r.w
           /\ encoding_b_' = r.b
    /\ trace' = Append(trace, [ev |-> "params", layer |-> l, train |-> next_train, valid |-> next_valid])
    /\ pc' = "pt_transform"
    /\ UNCHANGED <<cfgVars, autoencoders, netVars, sessVars, graph, pretrainLocals, fitLocals, result>>

\* The hand-off lost: the encoded sets are computed and dropped, so every
\* layer is fed the sets the first one was.
PretrainTransform_NoHandOff ==
    /\ pc = "pt_transform"
    /\ trace' = Append(trace, [ev |-> "transform", layer |-> l,
                               train |-> AE_transform(autoencoders[l + 1], l, next_train),
                               valid |-> IF next_valid = NoData THEN NoData
                                         ELSE AE_transform(autoencoders[l + 1], l, next_valid)])
    /\ graph' = {}
    /\ l' = l + 1
    /\ pc' = IF l + 1 < Len(autoencoders) THEN "pt_build" ELSE "pt_return"
    /\ UNCHANGED <<cfgVars, autoencoders, paramVars, netVars, sessVars, fitLocals,
                   next_train, next_valid, result>>

\* lines 125-128, 101, 104: both sets go through the fitted encoder, the pair
\* becomes the next layer's input, and the default graph is reset.
PretrainTransform ==
    /\ pc = "pt_transform"
    /\ \E v \in AE_transform_outcomes(autoencoders[l + 1], l, next_valid) :
        LET t == AE_transform(autoencoders[l + 1], l, next_train)
            ev == [ev |-> "transform", layer |-> l, train |-> t, valid |-> v.out]
        IN  IF v.raised
            THEN /\ Return("pretrain", "raised", <<>>)
                 /\ trace' = trace
                 /\ UNCHANGED <<pretrainLocals, graph>>
            ELSE /\ next_train' = t
                 /\ next_valid' = v.out
                 /\ trace' = Append(trace, ev)
                 /\ graph' = {}
                 /\ l' = l + 1
                 /\ pc' = IF l + 1 < Len(autoencoders) THEN "pt_build" ELSE "pt_return"
                 /\ result' = result
    /\ UNCHANGED <<cfgVars, autoencoders, paramVars, netVars, sessVars, fitLocals>>

\* line 106: return next_train, next_valid
PretrainReturn ==
    /\ pc = "pt_return"
    /\ Return("pretrain", "ok", <<next_train, next_valid>>)
    /\ UNCHANGED <<cfgVars, autoencoders, paramVars, netVars, sessVars, graph,
                   pretrainLocals, fitLocals, trace>>

\* ------------------------------------------------------------ build_model
Supported == {"sigmoid", "tanh", "relu"}

\* lines 267-269: the three placeholders.
PlaceholderNodes == {<<"x-input", 0>>, <<"y-input", 0>>, <<"keep-probs", 0>>}

\* lines 290-300: both lists are emptied, then one fresh variable per layer.
CreateVariablesNoPretrain(n_features) ==
    [raised |-> FALSE,
     w |-> [k \in 1..Len(layers) |->
              [shape |-> <<IF k = 1 THEN n_features ELSE layers[k - 1], layers[k]>>,
               kind |-> "variable", init |-> "truncated_normal", at |-> k - 1]],
     b |-> [k \in 1..Len(layers) |->
              [shape |-> <<layers[k]>>, kind |-> "variable", init |-> "constant",
               at |-> k - 1]],
     nodes |-> IF Len(layers) = 0 THEN {} ELSE {<<"Variable", 0>>}]

\* tf.Variable(value, name=...): a variable with the value's shape and contents.
AsVariable(e) == [e EXCEPT !.kind = "variable"]

\* lines 308-310: entry l of each list is replaced by a variable seeded with it,
\* for l = 0..len(layers)-1; encoding_w_[l] raises IndexError past the end of
\* the list, after the earlier entries have been replaced.
CreateVariablesPretrain(ws, bs) ==
    LET n == Min(Len(layers), Min(Len(ws), Len(bs)))
    IN  [raised |-> n < Len(layers),
         w |-> [k \in 1..Len(ws) |-> IF k <= Min(Len(layers), Len(ws)) THEN AsVariable(ws[k]) ELSE ws[k]],
         b |-> [k \in 1..Len(bs) |-> IF k <= n THEN AsVariable(bs[k]) ELSE bs[k]],
         nodes |-> {<<"enc-w", k - 1>> : k \in 1..Min(Len(layers), Len(ws))}
                   \cup {<<"enc-b", k - 1>> : k \in 1..n}]

\* lines 278-281
CreateVariables(n_features, ws, bs) ==
    IF do_pretrain THEN CreateVariablesPretrain(ws, bs)
    ELSE CreateVariablesNoPretrain(n_features)

\* lines 327-337: the activation node; None for any other name.
Activation(act, cols) ==
    IF act \in Supported THEN [op |-> act, cols |-> cols] ELSE [op |-> "None", cols |-> 0]

\* line 340: tf.nn.dropout converts its input to a tensor, which raises on None.
Dropout(layer_y) ==
    IF layer_y.op = "None" THEN [raised |-> TRUE, node |-> layer_y]
    ELSE [raised |-> FALSE, node |-> [op |-> "dropout", cols |-> layer_y.cols]]

\* line 325: matmul(next_train, W) + b needs next_train's columns to be W's rows
\* and b's length to be W's columns.
MatmulOk(cols, w, b) == w.shape[1] = cols /\ b.shape[1] = w.shape[2]

\* lines 321-342 from layer k (1-based) on: the nodes appended so far, and
\* whether a layer raised.
RECURSIVE EncodeFrom(_, _, _, _, _)
EncodeFrom(k, cols, nodes, ws, bs) ==
    IF k > Len(layers) THEN [raised |-> FALSE, nodes |-> nodes, cols |-> cols]
    ELSE IF ~MatmulOk(cols, ws[k], bs[k]) THEN [raised |-> TRUE, nodes |-> nodes, cols |-> cols]
    ELSE LET d == Dropout(Activation(finetune_act_func, ws[k].shape[2]))
         IN  IF d.raised THEN [raised |-> TRUE, nodes |-> nodes, cols |-> cols]
             ELSE EncodeFrom(k + 1, d.node.cols, Append(nodes, d.node), ws, bs)

\* lines 318-344: layer_nodes is emptied, then one node per layer.
CreateEncodingLayers(n_features, ws, bs) == EncodeFrom(1, n_features, <<>>, ws, bs)

\* lines 354-359: the softmax variables and the logits node, appended last.
CreateSoftmaxLayer(nodes, n_classes) ==
    [W |-> [shape |-> <<layers[Len(layers)], n_classes>>, kind |-> "variable",
            init |-> "truncated_normal", at |-> 0],
     nodes |-> Append(nodes, [op |-> "softmax_out", cols |-> n_classes])]

EncodeNodes(n) == {<<"encode", k - 1>> : k \in 1..n}
HeadNodes == {<<"sm-weigths", 0>>, <<"sm-biases", 0>>, <<"softmax_layer", 0>>,
              <<"cost", 0>>, <<"train_step", 0>>, <<"test", 0>>}

\* build_model(n_features, n_classes), lines 247-257.  An exception leaves
\* what the earlier statements assigned.
BuildModel(n_features, n_classes) ==
    /\ Idle
    /\ input_data' = n_features
    /\ trace' = <<>>
    /\ LET v == CreateVariables(n_features, encoding_w_, encoding_b_)
           e == CreateEncodingLayers(n_features, v.w, v.b)
           s == CreateSoftmaxLayer(e.nodes, n_classes)
       IN  /\ encoding_w_' = v.w
           /\ encoding_b_' = v.b
           /\ IF v.raised
              THEN /\ Return("build_model", "raised", <<"IndexError">>)
                   /\ graph' = graph \cup PlaceholderNodes \cup v.nodes
                   /\ UNCHANGED <<layer_nodes, softmax_W, train_step>>
              ELSE IF e.raised
              THEN /\ Return("build_model", "raised", <<"ValueError">>)
                   /\ graph' = graph \cup PlaceholderNodes \cup v.nodes \cup EncodeNodes(Len(e.nodes))
                   /\ layer_nodes' = e.nodes
                   /\ UNCHANGED <<softmax_W, train_step>>
              ELSE /\ Return("build_model", "ok", <<>>)
                   /\ graph' = graph \cup PlaceholderNodes \cup v.nodes
                                \cup EncodeNodes(Len(e.nodes)) \cup HeadNodes
                   /\ layer_nodes' = s.nodes
                   /\ softmax_W' = s.W
                   /\ train_step' = "train_step"
    /\ UNCHANGED <<cfgVars, autoencoders, sessVars, pretrainLocals, fitLocals>>

\* -------------------------------------------------------------------- fit
NoSession == [state |-> "none", base |-> "none", steps |-> 0]
NoFile == [exists |-> FALSE, base |-> "none", steps |-> 0]

\* zip(train_set, train_labels), line 160: example k is the pair (x_k, y_k).
Zip(S) == [k \in 1..S |-> <<k, k>>]

\* zip(*batch), line 168
Unzip(batch) == [x |-> [k \in 1..Len(batch) |-> batch[k][1]],
                 y |-> [k \in 1..Len(batch) |-> batch[k][2]]]

Perms(n) == {p \in [1..n -> 1..n] : \A a, b \in 1..n : p[a] = p[b] => a = b}

\* np.random.shuffle(shuff), line 164: the list's elements in any order.
Shuffles(s) == {[k \in 1..Len(s) |-> s[p[k]]] : p \in Perms(Len(s))}

\* utilities.gen_batches(data, batch_size): consecutive slices of batch_size
\* elements, the last one possibly shorter.
GenBatches(data, batch_size) ==
    [k \in 1..((Len(data) + batch_size - 1) \div batch_size) |->
        SubSeq(data, (k - 1) * batch_size + 1, Min(k * batch_size, Len(data)))]

\* _initialize_tf_utilities_and_ops(restore_previous_model), line 146: the
\* variables are initialised, the saver is created, and the checkpoint is
\* restored when asked for.  It raises when there is no graph to train or no
\* checkpoint to restore.
InitializeTfUtilitiesAndOps(restore_previous_model) ==
    IF train_step = "none" THEN [raised |-> TRUE, saver |-> tf_saver, base |-> "none"]
    ELSE IF restore_previous_model /\ ~model_file.exists
    THEN [raised |-> TRUE, saver |-> "saver", base |-> "init"]
    ELSE [raised |-> FALSE, saver |-> "saver",
          base |-> IF restore_previous_model THEN "checkpoint" ELSE "init"]

ClearFitLocals ==
    /\ shuff' = <<>>
    /\ batches' = <<>>
    /\ epoch' = 0
    /\ validation_set' = FALSE
    /\ fed' = <<>>

\* fit(...), lines 143-147 and 160: the session is opened and initialised, and
\* _train_model pairs the samples with their labels.
FitCall(S, hasValid, restore_previous_model) ==
    /\ Idle
    /\ trace' = <<>>
    /\ LET r == InitializeTfUtilitiesAndOps(restore_previous_model)
       IN  /\ tf_saver' = r.saver
           /\ IF r.raised
              THEN /\ Return("fit", "raised", <<>>)
                   /\ tf_session' = [state |-> "closed", base |-> r.base, steps |-> 0]
                   /\ ClearFitLocals
              ELSE /\ pc' = "fit_epoch"
                   /\ result' = NoResult
                   /\ tf_session' = [state |-> "open", base |-> r.base, steps |-> 0]
                   /\ shuff' = Zip(S)
                   /\ batches' = <<>>
                   /\ epoch' = 0
                   /\ validation_set' = hasValid
                   /\ fed' = <<>>
    /\ UNCHANGED <<cfgVars, autoencoders, paramVars, netVars, model_file, graph, pretrainLocals>>

\* The samples shuffled on their own, the labels left where they were.
FitShuffle_SamplesOnly ==
    /\ pc = "fit_epoch"
    /\ epoch < finetune_num_epochs
    /\ \E s \in Shuffles(shuff) :
        LET t == [k \in 1..Len(shuff) |-> <<s[k][1], shuff[k][2]>>]
        IN  /\ shuff' = t
            /\ batches' = GenBatches(t, finetune_batch_size)
    /\ fed' = <<>>
    /\ trace' = Append(trace, [ev |-> "shuffle", epoch |-> epoch, keep_prob |-> "-", n |-> Len(shuff)])
    /\ pc' = "fit_batch"
    /\ UNCHANGED <<cfgVars, autoencoders, paramVars, netVars, sessVars, graph,
                   pretrainLocals, epoch, validation_set, result>>

\* lines 162-165: the next epoch starts with a shuffle and a split.
FitShuffle ==
    /\ pc = "fit_epoch"
    /\ epoch < finetune_num_epochs
    /\ \E s \in Shuffles(shuff) :
        /\ shuff' = s
        /\ batches' = GenBatches(s, finetune_batch_size)
    /\ fed' = <<>>
    /\ trace' = Append(trace, [ev |-> "shuffle", epoch |-> epoch, keep_prob |-> "-", n |-> Len(shuff)])
    /\ pc' = "fit_batch"
    /\ UNCHANGED <<cfgVars, autoencoders, paramVars, netVars, sessVars, graph,
                   pretrainLocals, epoch, validation_set, result>>

\* What one run of train_step does to the session's variables.
ApplyTrainStep(sess) == [sess EXCEPT !.steps = @ + 1]

\* self.tf_saver.save(self.tf_session, self.model_path): the session's values.
Save(sess) == [exists |-> TRUE, base |-> sess.base, steps |-> sess.steps]

\* The checkpoint written inside the batch loop, after every step.
FitTrainStep_Checkpointing ==
    /\ pc = "fit_batch"
    /\ batches # <<>>
    /\ tf_session' = ApplyTrainStep(tf_session)
    /\ model_file' = Save(ApplyTrainStep(tf_session))
    /\ fed' = Append(fed, Unzip(Head(batches)))
    /\ batches' = Tail(batches)
    /\ trace' = Append(trace, [ev |-> "train_step", epoch |-> epoch, keep_prob |-> dropout, n |-> Len(Head(batches))])
    /\ UNCHANGED <<cfgVars, autoencoders, paramVars, netVars, tf_saver, graph,
                   pretrainLocals, shuff, epoch, validation_set, pc, result>>

\* lines 167-171: one optimizer step on the next batch.
FitTrainStep ==
    /\ pc = "fit_batch"
    /\ batches # <<>>
    /\ tf_session' = ApplyTrainStep(tf_session)
    /\ fed' = Append(fed, Unzip(Head(batches)))
    /\ batches' = Tail(batches)
    /\ trace' = Append(trace, [ev |-> "train_step", epoch |-> epoch, keep_prob |-> dropout, n |-> Len(Head(batches))])
    /\ UNCHANGED <<cfgVars, autoencoders, paramVars, netVars, tf_saver, model_file, graph,
                   pretrainLocals, shuff, epoch, validation_set, pc, result>>

\* A run of train_step that fails in the backend: the exception leaves fit
\* through the `with` block, which closes the session.
FitAbort ==
    /\ pc = "fit_batch"
    /\ batches # <<>>
    /\ tf_session' = [tf_session EXCEPT !.state = "closed"]
    /\ Return("fit", "raised", <<>>)
    /\ ClearFitLocals
    /\ UNCHANGED <<cfgVars, autoencoders, paramVars, netVars, tf_saver, model_file, graph,
                   pretrainLocals, trace>>

\* train_step among the fetched nodes: the validation set trains the model.
RunValidationErrorAndSummaries_Trains ==
    /\ trace' = Append(trace, [ev |-> "validation", epoch |-> epoch, keep_prob |-> "1", n |-> 0])
    /\ tf_session' = ApplyTrainStep(tf_session)
    /\ UNCHANGED <<shuff, fed>>

\* lines 184-193: accuracy and summaries on the validation set.
RunValidationErrorAndSummaries ==
    /\ trace' = Append(trace, [ev |-> "validation", epoch |-> epoch, keep_prob |-> "1", n |-> 0])
    /\ UNCHANGED <<tf_session, shuff, fed>>

\* lines 173-174: the epoch's batches are used up.
FitEpochEnd ==
    /\ pc = "fit_batch"
    /\ batches = <<>>
    /\ IF validation_set
       THEN RunValidationErrorAndSummaries
       ELSE UNCHANGED <<trace, tf_session, shuff, fed>>
    /\ epoch' = epoch + 1
    /\ pc' = "fit_epoch"
    /\ UNCHANGED <<cfgVars, autoencoders, paramVars, netVars, tf_saver, model_file, graph,
                   pretrainLocals, batches, validation_set, result>>

\* line 148, then the end of the `with` block.
FitSave ==
    /\ pc = "fit_epoch"
    /\ epoch >= finetune_num_epochs
    /\ model_file' = Save(tf_session)
    /\ tf_session' = [tf_session EXCEPT !.state = "closed"]
    /\ trace' = Append(trace, [ev |-> "save", epoch |-> epoch, keep_prob |-> "-", n |-> 0])
    /\ Return("fit", "ok", <<>>)
    /\ ClearFitLocals
    /\ UNCHANGED <<cfgVars, autoencoders, paramVars, netVars, tf_saver, graph, pretrainLocals>>

\* ------------------------------------------------------------- inference
Methods == {"predict", "compute_accuracy", "get_layers_output"}

\* predict / compute_accuracy / get_layers_output: a new session is opened
\* (lines 204, 218, 231).
InferenceCall(method) ==
    /\ Idle
    /\ method \in Methods
    /\ tf_session' = [state |-> "open", base |-> "none", steps |-> 0]
    /\ trace' = <<>>
    /\ result' = [op |-> method, status |-> "running", value |-> <<>>]
    /\ pc' = "restore"
    /\ UNCHANGED <<cfgVars, autoencoders, paramVars, netVars, tf_saver, model_file, graph,
                   pretrainLocals, fitLocals>>

\* A restore that falls back to freshly initialised values when there is no
\* checkpoint.
Restore_Lenient ==
    /\ pc = "restore"
    /\ tf_session' = IF tf_saver = "none" \/ ~model_file.exists
                      THEN [state |-> "open", base |-> "init", steps |-> 0]
                      ELSE [state |-> "open", base |-> model_file.base, steps |-> model_file.steps]
    /\ trace' = Append(trace, [ev |-> "restore", epoch |-> 0, keep_prob |-> "-"])
    /\ pc' = "eval"
    /\ UNCHANGED <<cfgVars, autoencoders, paramVars, netVars, tf_saver, model_file, graph,
                   pretrainLocals, fitLocals, result>>

\* self.tf_saver.restore(self.tf_session, self.model_path), lines 205, 219, 232:
\* raises when there is no saver yet or no checkpoint at model_path.
Restore ==
    /\ pc = "restore"
    /\ IF tf_saver = "none" \/ ~model_file.exists
       THEN /\ Return(result.op, "raised", <<>>)
            /\ tf_session' = [tf_session EXCEPT !.state = "closed"]
            /\ trace' = trace
       ELSE /\ tf_session' = [state |-> "open", base |-> model_file.base, steps |-> model_file.steps]
            /\ trace' = Append(trace, [ev |-> "restore", epoch |-> 0, keep_prob |-> "-"])
            /\ pc' = "eval"
            /\ result' = result
    /\ UNCHANGED <<cfgVars, autoencoders, paramVars, netVars, tf_saver, model_file, graph,
                   pretrainLocals, fitLocals>>

\* The nodes each method evaluates (lines 206-208, 220, 233), all with keep_prob 1.
Evaluated(method) ==
    IF method = "get_layers_output" THEN [k \in 1..Len(layer_nodes) |-> layer_nodes[k].op]
    ELSE IF method = "predict" THEN <<"model_predictions">>
    ELSE <<"accuracy">>

Eval ==
    /\ pc = "eval"
    /\ trace' = trace \o [k \in 1..Len(Evaluated(result.op)) |->
                            [ev |-> "eval", epoch |-> 0, keep_prob |-> "1"]]
    /\ tf_session' = [tf_session EXCEPT !.state = "closed"]
    /\ Return(result.op, "ok", Evaluated(result.op))
    /\ UNCHANGED <<cfgVars, autoencoders, paramVars, netVars, tf_saver, model_file, graph,
                   pretrainLocals, fitLocals>>

\* ------------------------------------------------------------ constructor
\* lines 79-86: one autoencoder per layer, each taking entry l of every
\* per-layer list; indexing a list past its end raises IndexError.
Construct ==
    /\ pc = "ctor"
    /\ LET lens == {Len(enc_act_func), Len(dec_act_func)} \cup {Len(train_opts[n]) : n \in TrainOptNames}
           short == {k \in 1..Len(layers) : \E n \in lens : n < k}
           made == IF short = {} THEN Len(layers) ELSE (CHOOSE k \in short : \A j \in short : k <= j) - 1
       IN  /\ autoencoders' = [k \in 1..made |-> NewAutoencoder(layers[k])]
           /\ IF short = {}
              THEN Return("__init__", "ok", <<>>)
              ELSE /\ pc' = "ctor_failed"
                   /\ result' = [op |-> "__init__", status |-> "raised", value |-> <<"IndexError">>]
    /\ UNCHANGED <<cfgVars, paramVars, netVars, sessVars, graph, pretrainLocals, fitLocals, trace>>

\* --------------------------------------------------------- specifications
LayerLists == SeqsOf(Widths, 1, MaxLayers)
OptionLengths == 1..(MaxLayers + 1)

\* The fields as lines 63-77 leave them.
FreshFields ==
    /\ encoding_w_ = <<>>
    /\ encoding_b_ = <<>>
    /\ layer_nodes = <<>>
    /\ softmax_W = [shape |-> <<>>, kind |-> "None", init |-> "none", at |-> 0]
    /\ input_data = 0
    /\ train_step = "none"
    /\ tf_saver = "none"
    /\ tf_session = NoSession
    /\ graph = {}
    /\ model_file = NoFile
    /\ l = 0
    /\ next_train = NoData
    /\ next_valid = NoData
    /\ shuff = <<>>
    /\ batches = <<>>
    /\ epoch = 0
    /\ validation_set = FALSE
    /\ fed = <<>>
    /\ trace = <<>>
    /\ result = NoResult

\* A constructed object whose per-layer lists have one entry per layer.
Constructed ==
    /\ enc_act_func = Repeat("tanh", Len(layers))
    /\ dec_act_func = Repeat("none", Len(layers))
    /\ train_opts = [n \in TrainOptNames |-> Repeat(n, Len(layers))]
    /\ autoencoders = [k \in 1..Len(layers) |-> NewAutoencoder(layers[k])]
    /\ pc = "idle"
    /\ FreshFields

\* Stacks of every shape, trained on one example for one epoch.
Init ==
    /\ layers \in LayerLists
    /\ do_pretrain \in BOOLEAN
    /\ finetune_act_func \in ActFuncs
    /\ finetune_num_epochs = 1
    /\ finetune_batch_size = 1
    /\ dropout = "1"
    /\ Constructed

PretrainSteps ==
    \/ PretrainBuild
    \/ PretrainFit
    \/ PretrainParams
    \/ PretrainTransform
    \/ PretrainReturn

FitSteps ==
    \/ FitShuffle
    \/ FitTrainStep
    \/ FitAbort
    \/ FitEpochEnd
    \/ FitSave

InferenceSteps ==
    \/ Restore
    \/ Eval

Next ==
    \/ \E N \in TrainRows, M \in ValidRows, F \in TrainFeatures, hasValid \in BOOLEAN :
          PretrainCall(N, M, F, hasValid)
    \/ PretrainSteps
    \/ \E n_features \in Features, n_classes \in Classes : BuildModel(n_features, n_classes)
    \/ FitCall(1, FALSE, FALSE)
    \/ FitSteps

Spec == Init /\ [][Next]_vars

\* One small stack, trained on sets of every size.
InitTrain ==
    /\ layers = <<2>>
    /\ do_pretrain = FALSE
    /\ finetune_act_func = "relu"
    /\ finetune_num_epochs \in 0..MaxEpochs
    /\ finetune_batch_size \in 1..MaxBatch
    /\ dropout \in Dropouts
    /\ Constructed

NextTrain ==
    \/ BuildModel(4, 2)
    \/ \E S \in 0..MaxSamples, hasValid \in BOOLEAN, restore \in BOOLEAN : FitCall(S, hasValid, restore)
    \/ FitSteps
    \/ \E m \in Methods : InferenceCall(m)
    \/ InferenceSteps

SpecTrain == InitTrain /\ [][NextTrain]_vars

\* The constructor, over per-layer lists of every length.
InitCtor ==
    /\ layers \in LayerLists
    /\ do_pretrain = TRUE
    /\ finetune_act_func = "relu"
    /\ finetune_num_epochs = 1
    /\ finetune_batch_size = 1
    /\ dropout = "1"
    /\ enc_act_func \in {Repeat("tanh", n) : n \in OptionLengths}
    /\ dec_act_func \in {Repeat("none", n) : n \in OptionLengths}
    /\ train_opts \in [TrainOptNames -> {Repeat("x", n) : n \in OptionLengths}]
    /\ autoencoders = <<>>
    /\ pc = "ctor"
    /\ FreshFields

NextCtor == Construct

SpecCtor == InitCtor /\ [][NextCtor]_vars

\* ================================================================ claims
PretrainPcs == {"pt_build", "pt_fit", "pt_params", "pt_transform", "pt_return"}
InPretrain == pc \in PretrainPcs \/ (Idle /\ result.op = "pretrain")
PretrainKinds == <<"build", "fit", "params", "transform">>
Returned(op) == Idle /\ result.op = op /\ result.status = "ok"

\* C1: pretrain takes the autoencoders in layer order, one build, fit,
\* get_model_parameters and transform per layer; layer 0 is built and fitted
\* on the sets pretrain was given, every later layer on exactly the pair the
\* transform of the layer before returned, and pretrain returns the pair the
\* last layer's transform returned.
C1_LayerwiseHandOff ==
    InPretrain =>
        /\ \A k \in 1..Len(trace) :
            /\ trace[k].ev = PretrainKinds[((k - 1) % 4) + 1]
            /\ trace[k].layer = (k - 1) \div 4
            /\ trace[k].ev = "transform" =>
                /\ trace[k].train.by = [j \in 1..(trace[k].layer + 1) |-> j - 1]
                /\ trace[k].train.src = "train"
                /\ trace[k].valid.src \in {"valid", "none"}
                /\ trace[k].valid # NoData => trace[k].valid.by = trace[k].train.by
            /\ trace[k].ev \in {"build", "fit"} =>
                IF trace[k].layer = 0
                THEN /\ trace[k].train \in {Data("train", N, F) : N \in TrainRows, F \in TrainFeatures}
                     /\ trace[k].valid \in {NoData} \cup {Data("valid", M, F) : M \in ValidRows, F \in TrainFeatures}
                ELSE \E j \in 1..(k - 1) :
                        /\ trace[j].ev = "transform"
                        /\ trace[j].layer = trace[k].layer - 1
                        /\ trace[k].train = trace[j].train
                        /\ trace[k].valid = trace[j].valid
            /\ trace[k].ev = "fit" =>
                /\ autoencoders[trace[k].layer + 1].fit_train = trace[k].train
                /\ autoencoders[trace[k].layer + 1].fit_valid = trace[k].valid
                /\ autoencoders[trace[k].layer + 1].input_dim = trace[k].train.cols
        /\ Returned("pretrain") =>
            /\ Len(trace) = 4 * Len(layers)
            /\ result.value = <<trace[Len(trace)].train, trace[Len(trace)].valid>>

\* A pretrain of a two-layer stack with a validation set has returned.
C1_Witness ==
    /\ Returned("pretrain")
    /\ Len(layers) = 2
    /\ result.value[2].src = "valid"

\* C2, as claimed: between any two public operations both lists hold exactly
\* one entry per layer.
C2_Claimed ==
    Idle => /\ Len(encoding_w_) = Len(encoding_b_)
            /\ Len(encoding_w_) = Len(layers)

\* The first pretrain of an object has returned: the lists, empty before the
\* call, hold the one entry per layer it appended.
FirstPretrainReturned == Returned("pretrain") /\ Len(encoding_w_) = Len(layers)

\* C3: after one pretrain on a train set of shape (N, F), encoding_w_[0] has
\* shape (F, layers[0]) and encoding_w_[l] has shape (layers[l-1], layers[l]),
\* each layer's output width is the next layer's input width, and the encoded
\* train set has shape (N, layers[-1]).
C3_ShapesChain ==
    FirstPretrainReturned =>
        LET given == trace[1].train
        IN  /\ \A k \in 1..Len(layers) :
                /\ encoding_w_[k].shape = <<IF k = 1 THEN given.cols ELSE layers[k - 1], layers[k]>>
                /\ encoding_b_[k].shape = <<layers[k]>>
                /\ k < Len(layers) => encoding_w_[k].shape[2] = encoding_w_[k + 1].shape[1]
            /\ result.value[1].rows = given.rows
            /\ result.value[1].cols = layers[Len(layers)]

\* The first pretrain of a stack of two layers of different widths has returned.
C3_Witness ==
    /\ FirstPretrainReturned
    /\ Len(layers) = 2
    /\ layers[1] # layers[2]

\* What _create_variables_no_pretrain is to leave for layer k (1-based).
FreshWeight(k, n_features) ==
    [shape |-> <<IF k = 1 THEN n_features ELSE layers[k - 1], layers[k]>>,
     kind |-> "variable", init |-> "truncated_normal", at |-> k - 1]

\* C5, as claimed: with do_pretrain false build_model succeeds, whatever the
\* lists held, and leaves one fresh variable per layer with the chained
\* shapes; with do_pretrain true a build_model that succeeds leaves variables
\* seeded with the pretrained values in the first len(layers) places.
C5_Claimed ==
    (Idle /\ result.op = "build_model") =>
        IF ~do_pretrain
        THEN /\ result.status = "ok"
             /\ Len(encoding_w_) = Len(layers)
             /\ Len(encoding_b_) = Len(layers)
             /\ \A k \in 1..Len(layers) : encoding_w_[k] = FreshWeight(k, input_data)
        ELSE result.status = "ok" =>
                \A k \in 1..Len(layers) :
                    /\ encoding_w_[k].kind = "variable"
                    /\ encoding_w_[k].init = "pretrained"

\* C10, as claimed: with an activation name other than sigmoid, tanh and relu
\* build_model still completes, and layer_nodes holds one output per encoding
\* layer followed by the softmax output.
C10_Claimed ==
    (Idle /\ result.op = "build_model" /\ finetune_act_func \notin Supported
          /\ result.value # <<"IndexError">>) =>
        /\ result.status = "ok"
        /\ Len(layer_nodes) = Len(layers) + 1
        /\ layer_nodes[Len(layer_nodes)].op = "softmax_out"

\* C4, as claimed: an object is constructed only when enc_act_func and
\* dec_act_func have exactly one entry per layer.
C4_Claimed ==
    Returned("__init__") =>
        /\ Len(enc_act_func) = Len(layers)
        /\ Len(dec_act_func) = Len(layers)

FitPcs == {"fit_epoch", "fit_batch"}
InFit == pc \in FitPcs \/ (Idle /\ result.op = "fit")
Events(kind) == {k \in 1..Len(trace) : trace[k].ev = kind}
StepsOf(e) == {k \in Events("train_step") : trace[k].epoch = e}
Ceil(a, b) == (a + b - 1) \div b

\* C6 in the states of a call of fit: the checkpoint is written at most once,
\* as the call's last act, after finetune_num_epochs epochs with one step
\* per batch each; a call that returns has written the values its last step
\* left, a call that raised has written nothing.
C6_Inv ==
    InFit =>
        /\ Cardinality(Events("save")) <= 1
        /\ \A k \in Events("save") :
            /\ k = Len(trace)
            /\ Cardinality(Events("shuffle")) = finetune_num_epochs
            /\ \A j \in Events("shuffle") :
                Cardinality(StepsOf(trace[j].epoch)) = Ceil(trace[j].n, finetune_batch_size)
        /\ pc \in FitPcs => Events("save") = {}
        /\ (Idle /\ result.status = "raised") => Events("save") = {}
        /\ (Idle /\ result.status = "ok") =>
            /\ Events("save") # {}
            /\ model_file.exists
            /\ model_file.steps = Cardinality(Events("train_step"))

\* C6 in the steps: the file at model_path changes only in the step that
\* ends a fit whose epochs are all done.
C6_Act ==
    model_file' # model_file =>
        /\ pc = "fit_epoch"
        /\ epoch = finetune_num_epochs
        /\ tf_session.steps = Cardinality(Events("train_step"))
        /\ pc' = "idle"
        /\ result'.op = "fit"
        /\ result'.status = "ok"
        /\ model_file' = Save(tf_session)

\* C6: fit persists the parameters exactly once per call, after the last
\* optimizer step of the last epoch; nothing is written before the training
\* loop completes, nor when training aborts.
C6_SavedOnceAtTheEnd == [](C6_Inv) /\ [][C6_Act]_vars

\* A fit of two epochs with two batches each has returned and saved four steps.
C6_Witness ==
    /\ Returned("fit")
    /\ finetune_num_epochs = 2
    /\ Cardinality(Events("train_step")) = 4
    /\ model_file.steps = 4

InInference == pc \in {"restore", "eval"} \/ (Idle /\ result.op \in Methods)

\* C7 in the states of a call of predict, compute_accuracy or
\* get_layers_output: the restore comes first, every node is evaluated with
\* keep-probability 1 on the restored values, and without a checkpoint the
\* call raises in the restore and evaluates nothing.
C7_Inv ==
    InInference =>
        /\ \A k \in 1..Len(trace) :
            IF k = 1 THEN trace[k].ev = "restore"
            ELSE trace[k].ev = "eval" /\ trace[k].keep_prob = "1"
        /\ pc = "eval" => Len(trace) = 1 /\ tf_session.steps = model_file.steps
        /\ (Idle /\ ~model_file.exists) =>
            /\ result.status = "raised"
            /\ result.value = <<>>
            /\ trace = <<>>
        /\ (Idle /\ result.status = "ok") =>
            /\ model_file.exists
            /\ Len(trace) = 1 + Len(result.value)
            /\ tf_session.steps = model_file.steps

\* C7 in the steps: no step of such a call changes the checkpoint, the
\* graph, the network's nodes or the parameter lists.
C7_Act ==
    (pc \in {"restore", "eval"} \/ pc' = "restore") =>
        UNCHANGED <<model_file, graph, netVars, paramVars, tf_saver>>

\* C7: each inference method restores the persisted model before it
\* evaluates anything, evaluates with keep-probability 1, fails in the restore
\* when nothing was persisted, and leaves the persisted model and the graph
\* as they were.
C7_RestoreThenEvaluate == [](C7_Inv) /\ [][C7_Act]_vars

\* get_layers_output has returned the outputs of the encoding layer and of
\* the softmax layer, evaluated after the restore.
C7_Witness ==
    /\ Returned("get_layers_output")
    /\ Len(result.value) = 2
    /\ Len(trace) = 3

\* C8: _train_model runs finetune_num_epochs epochs; in each the examples
\* are shuffled as (sample, label) pairs and split into ceil(S/B) batches, all
\* of B examples except possibly the last; every batch gets one optimizer
\* step, fed its samples with their own labels and the configured dropout, so
\* that an epoch uses every example exactly once.
C8_EpochsOfPairedBatches ==
    /\ pc \in FitPcs =>
        LET S == Len(shuff)
            B == finetune_batch_size
        IN  /\ epoch <= finetune_num_epochs
            /\ \A k \in 1..S : shuff[k][1] = shuff[k][2]
            /\ {shuff[k][1] : k \in 1..S} = 1..S
            /\ Cardinality(Events("shuffle")) = epoch + (IF pc = "fit_batch" THEN 1 ELSE 0)
            /\ \A e \in 0..(epoch - 1) : Cardinality(StepsOf(e)) = Ceil(S, B)
            /\ \A k \in Events("train_step") : trace[k].keep_prob = dropout
            /\ tf_session.steps = Cardinality(Events("train_step"))
            /\ pc = "fit_batch" =>
                /\ Len(fed) + Len(batches) = Ceil(S, B)
                /\ Cardinality(StepsOf(epoch)) = Len(fed)
                /\ \A g \in 1..S :
                    LET bi == ((g - 1) \div B) + 1
                        off == ((g - 1) % B) + 1
                    IN  IF bi <= Len(fed)
                        THEN /\ Len(fed[bi].x) = Min(B, S - (bi - 1) * B)
                             /\ Len(fed[bi].y) = Len(fed[bi].x)
                             /\ fed[bi].x[off] = shuff[g][1]
                             /\ fed[bi].y[off] = shuff[g][2]
                        ELSE /\ Len(batches[bi - Len(fed)]) = Min(B, S - (bi - 1) * B)
                             /\ batches[bi - Len(fed)][off] = shuff[g]
    /\ Returned("fit") =>
        /\ Cardinality(Events("shuffle")) = finetune_num_epochs
        /\ \A j \in Events("shuffle") :
            Cardinality(StepsOf(trace[j].epoch)) = Ceil(trace[j].n, finetune_batch_size)

\* The second epoch of a fit on three examples in batches of two has used up
\* its two batches, in an order other than the one the examples came in.
C8_Witness ==
    /\ pc = "fit_batch"
    /\ epoch = 1
    /\ batches = <<>>
    /\ Len(fed) = 2
    /\ Len(fed[1].x) = 2
    /\ Len(fed[2].x) = 1
    /\ fed[1].x # <<1, 2>>

\* C9 in the states of a running fit: a validation run follows all the
\* optimizer steps of its epoch, happens once per finished epoch when a
\* validation set was given and never otherwise, and feeds keep-probability 1.
C9_Inv ==
    pc \in FitPcs =>
        /\ Cardinality(Events("validation")) = IF validation_set THEN epoch ELSE 0
        /\ \A k \in Events("validation") :
            /\ trace[k].keep_prob = "1"
            /\ Cardinality({j \in StepsOf(trace[k].epoch) : j < k})
                 = Ceil(Len(shuff), finetune_batch_size)
            /\ \A j \in StepsOf(trace[k].epoch) : j < k

\* C9 in the steps: the step that ends an epoch, with or without a
\* validation run, changes nothing but the epoch counter and the log of what
\* was run.
C9_Act ==
    (pc = "fit_batch" /\ pc' = "fit_epoch") =>
        /\ UNCHANGED <<tf_session, shuff, batches, fed, model_file, tf_saver,
                       paramVars, netVars, graph, validation_set>>
        /\ epoch' = epoch + 1
        /\ trace' = IF validation_set
                    THEN Append(trace, [ev |-> "validation", epoch |-> epoch,
                                        keep_prob |-> "1", n |-> 0])
                    ELSE trace

\* C9: the validation step runs after the epoch's optimizer steps, only
\* when a validation set was given, at keep-probability 1, and leaves the
\* training state as a fit without a validation set has it.
C9_ValidationObservesOnly == [](C9_Inv) /\ [][C9_Act]_vars

\* Training goes on after a validation run: a step of the second epoch has
\* been applied on top of the first epoch's.
C9_Witness ==
    /\ pc = "fit_batch"
    /\ validation_set
    /\ epoch = 1
    /\ Events("validation") # {}
    /\ Len(fed) = 1
    /\ tf_session.steps > 1

====
